---- MODULE Spec2Model ----
(***************************************************************************)
(* Verification model of the development-job orchestrator:                 *)
(*   - the Coordinator retry loop            (agent/src/index.ts)          *)
(*   - the backend executors                 (agents/claude-code, codex)   *)
(*   - the job-status store operations       (core/database)               *)
(*   - the Job/Session Manager HTTP service  (Hono server)                 *)
(*   - the unstructured stream adapter       (agents/gemini)               *)
(*                                                                         *)
(* Several specifications share the module:                                *)
(*   Spec      one run of the Coordinator CLI process                      *)
(*   ExecSpec  executeDevelopmentCycle called directly, for each backend   *)
(*   EarlierSpec  the same with the earlier claude-code message loop       *)
(*   MgrSpec   the Manager with its sessions and their child processes     *)
(*   MgrSweepSpec / MgrDownSpec / MgrAllSpec  the Manager with its cleanup *)
(*             sweep, its shutdown, the sweep and the process output       *)
(*   GemSpec   one run of the Gemini CLI adapter and its consumer          *)
(*   ChanSpec  the Stream channel with one producer and one consumer       *)
(*   LogSpec   one streaming Logs request of the Manager                   *)
(* FairSpec, MgrFairSpec, GemFairSpec and ChanFairSpec add the fairness    *)
(* the Node event loop provides.                                           *)
(***************************************************************************)
EXTENDS Integers, Sequences, FiniteSets, TLC

\* ------------------------------------------------------------------------
\* Bounds of the model (not program constants)
\* ------------------------------------------------------------------------
\* messages a backend stream yields in one attempt
MaxMsgs == 2
\* direct calls of executeDevelopmentCycle made by the ExecSpec harness
MaxCalls == 2

\* ------------------------------------------------------------------------
\* Program constants and value domains
\* ------------------------------------------------------------------------
maxRetries == 3

\* undefined / null session token
None == "none"
\* token found by getPreviousSessionId
PrevToken == "prev"
\* session ids carried by the messages of a backend stream
Tokens == {"t1", "t2"}

AgentTypes == {"claude-code", "codex", "gemini"}
Backends == {"claude-code", "codex"}

\* the original --aiPrompt argument
aiPrompt == <<"aiPrompt">>

\* output captured from a failed `npm run build`
Stderrs == {"", "TS2304: Cannot find name 'Foo'"}
Stdouts == {"", "vite build output"}
ExecFailMessage == "Command failed: npm run build"

\* errors that saveMessageToDatabase throws
SaveErrors == {"InsufficientCreditError", "PersistenceError"}

VARIABLES
  \* --- Coordinator (index.ts) ---
  agentType,          \* --agent option
  shouldResume,       \* --resume flag
  developmentId,      \* TRUE iff --development-id was passed
  pc,                 \* control point of the CLI process
  attempt,            \* retry-loop counter
  currentAiPrompt,    \* prompt of the next attempt
  sessionId,          \* backend session token threaded through attempts
  developmentRecord,  \* TRUE iff the local developmentRecord is non-null
  err,                \* name of the error being handled by the catch block
  prevSession,        \* latest stored session_id of the miniapp, and how the
                      \* lookup of it went
  \* --- executeDevelopmentCycle frame ---
  backend,            \* executor in use
  argPrompt,          \* prompt argument of the current call
  argSession,         \* sessionId argument of the current call
  newSid,             \* session id tracked while consuming the stream
  msgCount,           \* messages pulled from the stream in this call
  persisted,          \* indices of the messages the store accepted in this call
  cycle,              \* what this call has done so far
  result,             \* value returned by the call
  \* --- durable job record (miniapp_development row) ---
  jobStatus,          \* NONE (no row) | PROCESSING | COMPLETED | ERROR
  jobSession,         \* session_id column
  statusLog,          \* every status update applied to the row, in order
  gitCommits,         \* job statuses at which executeGitCommit was invoked
  \* --- observation of the run ---
  calls,              \* arguments of each executeDevelopmentCycle call
  outcomes,           \* how each attempt ended
  waits,              \* back-off delays (seconds) waited so far
  \* --- Gemini CLI adapter (agents/gemini) ---
  child,              \* the spawned CLI process and the abort controller
  processExitPromise, \* pending | resolved | rejected with an error
  reader,             \* GeminiQuery.readMessages: position and buffers
  inputStream,        \* the Stream<SDKMessage> channel
  consumer,           \* the single consumer iterating the adapter
  second,             \* outcome of a second iteration of the same adapter
  produced,           \* values a producer has enqueued into the channel
  \* --- Job/Session Manager (HTTP service) ---
  sessions,           \* keys of the `sessions` Map
  sess,               \* the AgentSession objects (they outlive removal)
  proc,               \* the child process of each session
  stopTimer,          \* the 5 s setTimeout armed by Stop
  devStatus,          \* status of each session's job record
  manager,            \* the Manager process: up | closing | exited
  aged,               \* sessions older than the 30-minute retention window
  swept,              \* sessions the cleanup sweep has removed
  \* --- one streaming GET /logs/agent/:sessionId request ---
  logSess,            \* the session object the request holds
  sse                 \* the SSE stream, the poll interval and its callbacks

coordVars == <<agentType, shouldResume, developmentId, pc, attempt,
               currentAiPrompt, sessionId, developmentRecord, err, prevSession>>
execVars == <<backend, argPrompt, argSession, newSid, msgCount, persisted,
              cycle, result>>
jobVars == <<jobStatus, jobSession, statusLog, gitCommits>>
histVars == <<calls, outcomes, waits>>

cliVars == <<coordVars, execVars, jobVars, histVars>>
gemVars == <<child, processExitPromise, reader, inputStream, consumer, second,
             produced>>

lifeVars == <<manager, aged, swept>>
mgrVars == <<sessions, sess, proc, stopTimer, devStatus, lifeVars>>
logVars == <<logSess, sse>>

vars == <<cliVars, gemVars, mgrVars, logVars>>

\* ------------------------------------------------------------------------
\* Helpers
\* ------------------------------------------------------------------------
NoResult == [success |-> FALSE, sessionId |-> None, buildErrorPrompt |-> <<>>]
\* buildStderr is the stderr of the failed `npm run build` of this call
NewCycle == [streamDone |-> FALSE, buildRan |-> FALSE, buildOk |-> FALSE,
             completedWritten |-> FALSE, buildStderr |-> ""]

\* A variant of the retry prompt that leaves the error details out.
BuildErrorPrompt_NoStderr(stderr, stdout) ==
  <<"Previous build failed with the following error.">>
    \o (IF stdout # "" THEN <<"Build Output:", stdout>> ELSE <<>>)

\* `${error.buildOutput?.stderr}` and the optional "Build Output:" section
BuildErrorPrompt(stderr, stdout) ==
  <<"Previous build failed with the following error.", stderr>>
    \o (IF stdout # "" THEN <<"Build Output:", stdout>> ELSE <<>>)

\* buildError.stderr || buildError.message || ""
BuildStderr(stderr) == IF stderr # "" THEN stderr ELSE ExecFailMessage

\* A variant of the back-off that starts at two seconds.
RetryDelay_FromTwo(a) == 2 ^ a

\* Math.pow(2, attempt - 1) seconds
RetryDelay(a) == 2 ^ (a - 1)

\* A variant of the registry listing that also names the executors that
\* exist in the tree but are not registered.
getAvailableAgents_All == AgentTypes

\* getAvailableAgents()
getAvailableAgents == {"claude-code"}

\* What the entry point prints for an unknown --agent value before
\* process.exit(1): the rejected name and getAvailableAgents().join(', ').
UnknownAgentReport(t) == [unknown |-> t, available |-> getAvailableAgents]

\* The Error thrown by the default arm of createAgent: its message names
\* the rejected type and the (literal) list of available agents.
createAgentError(t) == [unknown |-> t, available |-> {"claude-code"}]

\* The Coordinator CLI is not running (specifications that do not exercise it).
CliIdle ==
  /\ agentType = "none"
  /\ shouldResume = FALSE
  /\ developmentId = FALSE
  /\ pc = "none"
  /\ attempt = 0
  /\ currentAiPrompt = aiPrompt
  /\ sessionId = None
  /\ developmentRecord = FALSE
  /\ err = "none"
  /\ prevSession = [token |-> None, lookup |-> "none"]
  /\ backend = "none"
  /\ argPrompt = <<>>
  /\ argSession = None
  /\ newSid = None
  /\ msgCount = 0
  /\ persisted = <<>>
  /\ cycle = NewCycle
  /\ result = NoResult
  /\ jobStatus = "NONE"
  /\ jobSession = None
  /\ statusLog = <<>>
  /\ gitCommits = <<>>
  /\ calls = <<>>
  /\ outcomes = <<>>
  /\ waits = <<>>

\* session ids the Manager can hand out (uuidv4 values, never reused)
SessionIds == {"s1", "s2"}

\* exit codes; NullCode is the `null` of a process that has not exited or
\* was ended by a signal, SpawnErrno the negative errno of a failed spawn
NullCode == -1
SpawnErrno == -2

NoSession == [status |-> "none", exitCode |-> NullCode, stderr |-> <<>>,
              timeoutHandle |-> "none"]
NoProc == [state |-> "none", exitCode |-> NullCode, signals |-> {},
           closed |-> FALSE]

\* Initial state of the Manager: no session yet.
MgrIdle ==
  /\ sessions = {}
  /\ sess = [s \in SessionIds |-> NoSession]
  /\ proc = [s \in SessionIds |-> NoProc]
  /\ stopTimer = [s \in SessionIds |-> "none"]
  /\ devStatus = [s \in SessionIds |-> "NONE"]
  /\ manager = "up"
  /\ aged = {}
  /\ swept = {}

\* The adapter is not running (specifications that do not exercise it).
GemIdle ==
  /\ child = [state |-> "none", killed |-> FALSE, aborted |-> FALSE, sigterms |-> 0]
  /\ processExitPromise = "pending"
  /\ reader = [at |-> "none", lines |-> 0, numTurns |-> 0,
               outputBuffer |-> <<>>, aiResponseBuffer |-> <<>>]
  /\ inputStream = [queue |-> <<>>, readResolve |-> FALSE, isDone |-> FALSE,
                    hasError |-> "none", started |-> FALSE]
  /\ consumer = [at |-> "none", received |-> <<>>]
  /\ second = "none"
  /\ produced = <<>>

\* No streaming Logs request is open (specifications that do not exercise it).
LogIdle ==
  /\ logSess = [status |-> "none", exitCode |-> NullCode, stdout |-> 0]
  /\ sse = [interval |-> "none", lastPosition |-> 0, closed |-> FALSE,
            ticks |-> 0, running |-> {}, events |-> <<>>]

\* ------------------------------------------------------------------------
\* Job-status store operations (core/database)
\* ------------------------------------------------------------------------
\* The row is updated unconditionally (.update(...).eq("id", ...)); a store
\* error is only logged, so the operation never throws and control flow does
\* not depend on it.  The store is taken to apply the update.
StatusToError(by, sid) ==
  /\ jobStatus' = "ERROR"
  /\ jobSession' = IF sid # None THEN sid ELSE jobSession
  /\ statusLog' = Append(statusLog, [by |-> by, status |-> "ERROR"])
  /\ UNCHANGED gitCommits

\* A variant that loses the update (the row is never written).
updateDevelopmentStatusToError_Lost(by, rec, sid) == UNCHANGED jobVars

\* updateDevelopmentStatusToError(developmentRecord, msg, sid): a null record
\* is a no-op
updateDevelopmentStatusToError(by, rec, sid) ==
  IF rec THEN StatusToError(by, sid) ELSE UNCHANGED jobVars

\* A variant that commits but never writes the COMPLETED status.
updateDevelopmentStatusToCompleted_NoWrite(sid) ==
  /\ gitCommits' = Append(gitCommits, jobStatus)
  /\ UNCHANGED <<jobStatus, jobSession, statusLog>>

\* updateDevelopmentStatusToCompleted: git commit first, then the row update
updateDevelopmentStatusToCompleted(sid) ==
  /\ gitCommits' = Append(gitCommits, jobStatus)
  /\ jobStatus' = "COMPLETED"
  /\ jobSession' = IF sid # None THEN sid ELSE jobSession
  /\ statusLog' = Append(statusLog, [by |-> "executor", status |-> "COMPLETED"])


\* ------------------------------------------------------------------------
\* Backend executors: executeDevelopmentCycle of claude-code and codex
\* ------------------------------------------------------------------------
\* Entry of executeDevelopmentCycle(prompt, sid, developmentRecord, options).
\* claude-code tracks `sessionId` (initially undefined), codex tracks
\* `currentThreadId` (initially the threadId argument).
EnterCycle(b, prompt, sid) ==
  /\ backend' = b
  /\ argPrompt' = prompt
  /\ argSession' = sid
  /\ newSid' = IF b = "codex" THEN sid ELSE None
  /\ msgCount' = 0
  /\ persisted' = <<>>
  /\ cycle' = NewCycle
  /\ result' = NoResult

Outcome(kind, sid, prompt) ==
  [attempt |-> attempt, kind |-> kind, sessionId |-> sid,
   buildErrorPrompt |-> prompt]

\* The session id the executor holds after one more message: claude-code
\* takes message.session_id of every message, codex only that of a
\* thread.started event.
TrackSession(b, cur, tok, started) ==
  IF b = "claude-code" THEN tok ELSE IF started THEN tok ELSE cur

\* One iteration of `for await (const message of queryIterator)`: the
\* message is pulled, its session id recorded, and saveMessageToDatabase is
\* awaited before the next pull.  A failed save records the error, marks the
\* job ERROR and rethrows out of executeDevelopmentCycle.
StreamMessage ==
  /\ pc = "stream"
  /\ UNCHANGED <<gemVars, mgrVars, logVars, prevSession>>
  /\ msgCount < MaxMsgs
  /\ \E tok \in Tokens, started \in BOOLEAN, save \in {"ok"} \cup SaveErrors :
       LET sid == TrackSession(backend, newSid, tok, started) IN
       /\ newSid' = sid
       /\ msgCount' = msgCount + 1
       /\ persisted' = IF save = "ok" /\ developmentRecord
                        THEN Append(persisted, msgCount + 1) ELSE persisted
       /\ IF save = "ok" \/ ~developmentRecord
          THEN /\ pc' = "stream"
               /\ UNCHANGED <<err, jobVars, outcomes>>
          ELSE /\ updateDevelopmentStatusToError("executor", developmentRecord, sid)
               /\ err' = save
               /\ outcomes' = Append(outcomes, Outcome(save, None, <<>>))
               /\ pc' = "catch"
  /\ UNCHANGED <<agentType, shouldResume, developmentId, attempt,
                 currentAiPrompt, sessionId, developmentRecord>>
  /\ UNCHANGED <<backend, argPrompt, argSession, cycle, result>>
  /\ UNCHANGED <<calls, waits>>

\* The stream itself rejects (the agent could not be started, the SDK
\* failed): rethrown unchanged, no status is written by the executor.
StreamThrows ==
  /\ pc = "stream"
  /\ UNCHANGED <<gemVars, mgrVars, logVars, prevSession>>
  /\ err' = "AdapterError"
  /\ outcomes' = Append(outcomes, Outcome("AdapterError", None, <<>>))
  /\ pc' = "catch"
  /\ UNCHANGED <<agentType, shouldResume, developmentId, attempt,
                 currentAiPrompt, sessionId, developmentRecord>>
  /\ UNCHANGED <<execVars, jobVars, calls, waits>>

\* The stream is exhausted: executeClaudeCode / executeCodex returns the
\* tracked session id and the build step is next.
StreamEnd ==
  /\ pc = "stream"
  /\ UNCHANGED <<gemVars, mgrVars, logVars, prevSession>>
  /\ cycle' = [cycle EXCEPT !.streamDone = TRUE]
  /\ pc' = "build"
  /\ UNCHANGED <<agentType, shouldResume, developmentId, attempt,
                 currentAiPrompt, sessionId, developmentRecord, err>>
  /\ UNCHANGED <<backend, argPrompt, argSession, newSid, msgCount, persisted,
                 result>>
  /\ UNCHANGED <<jobVars, histVars>>

\* A variant that reports success although the build failed.
BuildFailureResult_Success(sidArg, sidNew, stderr, stdout) ==
  [success |-> TRUE, sessionId |-> sidNew, buildErrorPrompt |-> <<>>]

\* What executeDevelopmentCycle returns when executeBuild threw BuildError:
\* the session id it was CALLED with and the synthesized prompt.
BuildFailureResult(sidArg, sidNew, stderr, stdout) ==
  [success |-> FALSE, sessionId |-> sidArg,
   buildErrorPrompt |-> BuildErrorPrompt(BuildStderr(stderr), stdout)]

\* executeBuild: `npm run build` succeeds, or fails with BuildError which
\* executeDevelopmentCycle turns into a {success:false} result.
Build ==
  /\ pc = "build"
  /\ UNCHANGED <<gemVars, mgrVars, logVars, prevSession>>
  /\ \/ /\ cycle' = [cycle EXCEPT !.buildRan = TRUE, !.buildOk = TRUE]
        /\ pc' = "complete"
        /\ UNCHANGED <<result, outcomes>>
     \/ \E stderr \in Stderrs, stdout \in Stdouts :
          LET r == BuildFailureResult(argSession, newSid, stderr, stdout) IN
          /\ cycle' = [cycle EXCEPT !.buildRan = TRUE, !.buildStderr = stderr]
          /\ result' = r
          /\ outcomes' = Append(outcomes,
                Outcome("buildfail", r.sessionId, r.buildErrorPrompt))
          /\ pc' = "ret"
  /\ UNCHANGED <<agentType, shouldResume, developmentId, attempt,
                 currentAiPrompt, sessionId, developmentRecord, err>>
  /\ UNCHANGED <<backend, argPrompt, argSession, newSid, msgCount, persisted>>
  /\ UNCHANGED <<jobVars, calls, waits>>

\* After a successful build: updateDevelopmentStatusToCompleted, then
\* return {success: true, sessionId: newSessionId}.
Complete ==
  /\ pc = "complete"
  /\ UNCHANGED <<gemVars, mgrVars, logVars, prevSession>>
  /\ updateDevelopmentStatusToCompleted(newSid)
  /\ cycle' = [cycle EXCEPT !.completedWritten = TRUE]
  /\ result' = [success |-> TRUE, sessionId |-> newSid, buildErrorPrompt |-> <<>>]
  /\ outcomes' = Append(outcomes, Outcome("success", newSid, <<>>))
  /\ pc' = "ret"
  /\ UNCHANGED <<agentType, shouldResume, developmentId, attempt,
                 currentAiPrompt, sessionId, developmentRecord, err>>
  /\ UNCHANGED <<backend, argPrompt, argSession, newSid, msgCount, persisted>>
  /\ UNCHANGED <<calls, waits>>

ExecutorNext == StreamMessage \/ StreamThrows \/ StreamEnd \/ Build \/ Complete


\* ------------------------------------------------------------------------
\* Coordinator: the retry loop of the CLI entry point (index.ts)
\* ------------------------------------------------------------------------
\* createAgent(agentType): the registry switch; "throw" is the default arm.
createAgent(t) == IF t = "claude-code" THEN "claude-code" ELSE "throw"

\* Validate agent type: an unknown name exits before anything else runs.
Validate ==
  /\ pc = "validate"
  /\ UNCHANGED <<gemVars, mgrVars, logVars, prevSession>>
  /\ pc' = IF agentType \in getAvailableAgents THEN "setup" ELSE "exit1"
  /\ UNCHANGED <<agentType, shouldResume, developmentId, attempt,
                 currentAiPrompt, sessionId, developmentRecord, err>>
  /\ UNCHANGED <<execVars, jobVars, histVars>>

\* how the query of getPreviousSessionId ends: a row or no row ("ok"), or
\* a fetch error / a thrown exception ("failed")
LookupOutcomes == {"ok", "failed"}

\* A variant of the lookup that hands out a stale token when the query failed.
getPreviousSessionId_Stale(stored, outcome) == PrevToken

\* getPreviousSessionId(miniAppId): the stored session_id when the query
\* succeeded and found one, null in every other case
getPreviousSessionId(stored, outcome) ==
  IF outcome = "ok" /\ stored # None THEN stored ELSE None

\* Session ID setup: getPreviousSessionId is called only with --resume;
\* without the flag sessionId stays undefined.
SessionSetup ==
  /\ pc = "setup"
  /\ UNCHANGED <<gemVars, mgrVars, logVars>>
  /\ IF shouldResume
     THEN \E outcome \in LookupOutcomes :
            /\ sessionId' = getPreviousSessionId(prevSession.token, outcome)
            /\ prevSession' = [prevSession EXCEPT !.lookup = outcome]
     ELSE UNCHANGED <<sessionId, prevSession>>
  /\ pc' = "loop"
  /\ UNCHANGED <<agentType, shouldResume, developmentId, attempt,
                 currentAiPrompt, developmentRecord, err>>
  /\ UNCHANGED <<execVars, jobVars, histVars>>

\* Top of `while (attempt < maxRetries)`: attempt++, load or create the job
\* record if there is none yet, create the agent and call
\* executeDevelopmentCycle(currentAiPrompt, sessionId ?? undefined, ...).
StartAttempt ==
  /\ pc = "loop"
  /\ UNCHANGED <<gemVars, mgrVars, logVars, prevSession>>
  /\ attempt < maxRetries
  /\ attempt' = attempt + 1
  /\ \E recordOk \in BOOLEAN :
       IF ~developmentRecord /\ ~recordOk
       THEN \* getDevelopmentRecord / createDevelopmentRecord throws
            /\ err' = "RecordError"
            /\ outcomes' = Append(outcomes,
                  [attempt |-> attempt + 1, kind |-> "RecordError",
                   sessionId |-> None, buildErrorPrompt |-> <<>>])
            /\ pc' = "catch"
            /\ UNCHANGED <<developmentRecord, execVars, jobVars, calls>>
       ELSE /\ developmentRecord' = TRUE
            /\ jobStatus' = IF developmentRecord \/ developmentId
                            THEN jobStatus ELSE "PROCESSING"
            /\ UNCHANGED <<jobSession, statusLog, gitCommits>>
            /\ EnterCycle(createAgent(agentType), currentAiPrompt, sessionId)
            /\ calls' = Append(calls,
                  [attempt |-> attempt + 1, prompt |-> currentAiPrompt,
                   token |-> sessionId])
            /\ pc' = "stream"
            /\ UNCHANGED <<err, outcomes>>
  /\ UNCHANGED <<agentType, shouldResume, developmentId, currentAiPrompt,
                 sessionId, waits>>

\* `if (result.success) {...; break} else {...; throw buildError}`
HandleResult ==
  /\ pc = "ret"
  /\ UNCHANGED <<gemVars, mgrVars, logVars, prevSession>>
  /\ sessionId' = result.sessionId
  /\ IF result.success
     THEN /\ pc' = "done"
          /\ UNCHANGED <<currentAiPrompt, err>>
     ELSE /\ currentAiPrompt' = result.buildErrorPrompt
          /\ err' = "BuildError"
          /\ pc' = "catch"
  /\ UNCHANGED <<agentType, shouldResume, developmentId, attempt,
                 developmentRecord>>
  /\ UNCHANGED <<execVars, jobVars, histVars>>

\* A variant that always retries with the original prompt.
NextPrompt_Original(e, cur) == aiPrompt

\* A variant of the catch block that never resets the prompt.
NextPrompt_Kept(e, cur) == cur

\* The prompt kept for the next attempt by the catch block: the build-error
\* prompt after a BuildError, the original aiPrompt after any other error.
NextPrompt(e, cur) == IF e = "BuildError" THEN cur ELSE aiPrompt

\* isLastAttempt = attempt >= maxRetries
IsLastAttempt(a) == a >= maxRetries

\* The inner catch block.  On the last attempt the status is set to ERROR
\* and the error is rethrown to the outer handler; otherwise EVERY error,
\* whatever its name, leads to the back-off wait and another iteration.
Catch ==
  /\ pc = "catch"
  /\ UNCHANGED <<gemVars, mgrVars, logVars, prevSession>>
  /\ IF IsLastAttempt(attempt)
     THEN /\ updateDevelopmentStatusToError("inner", developmentRecord, sessionId)
          /\ pc' = "fatal"
          /\ UNCHANGED currentAiPrompt
     ELSE /\ currentAiPrompt' = NextPrompt(err, currentAiPrompt)
          /\ pc' = "backoff"
          /\ UNCHANGED jobVars
  /\ UNCHANGED <<agentType, shouldResume, developmentId, attempt, sessionId,
                 developmentRecord, err>>
  /\ UNCHANGED <<execVars, histVars>>

\* A variant of the retry step that does not await the back-off timer.
BackoffDone_NotAwaited ==
  /\ pc = "backoff"
  /\ pc' = "loop"
  /\ UNCHANGED <<agentType, shouldResume, developmentId, attempt,
                 currentAiPrompt, sessionId, developmentRecord, err, prevSession>>
  /\ UNCHANGED <<execVars, jobVars, histVars, gemVars, mgrVars, logVars>>

\* await new Promise(resolve => setTimeout(resolve, retryDelay))
BackoffDone ==
  /\ pc = "backoff"
  /\ UNCHANGED <<gemVars, mgrVars, logVars, prevSession>>
  /\ waits' = Append(waits, RetryDelay(attempt))
  /\ pc' = "loop"
  /\ UNCHANGED <<agentType, shouldResume, developmentId, attempt,
                 currentAiPrompt, sessionId, developmentRecord, err>>
  /\ UNCHANGED <<execVars, jobVars, calls, outcomes>>

\* The outer `catch (fatalError)`: the status is set to ERROR once more (no
\* session id is passed) when a record exists, then process.exit(1).
Fatal ==
  /\ pc = "fatal"
  /\ UNCHANGED <<gemVars, mgrVars, logVars, prevSession>>
  /\ updateDevelopmentStatusToError("outer", developmentRecord, None)
  /\ pc' = "exit1"
  /\ UNCHANGED <<agentType, shouldResume, developmentId, attempt,
                 currentAiPrompt, sessionId, developmentRecord, err>>
  /\ UNCHANGED <<execVars, histVars>>

CoordinatorNext ==
  \/ Validate \/ SessionSetup \/ StartAttempt \/ HandleResult
  \/ Catch \/ BackoffDone \/ Fatal

Init ==
  /\ agentType \in AgentTypes
  /\ shouldResume \in BOOLEAN
  /\ developmentId \in BOOLEAN
  /\ pc = "validate"
  /\ attempt = 0
  /\ currentAiPrompt = aiPrompt
  /\ sessionId = None
  /\ developmentRecord = FALSE
  /\ err = "none"
  /\ prevSession \in [token : {None, PrevToken}, lookup : {"none"}]
  /\ backend = "none"
  /\ argPrompt = <<>>
  /\ argSession = None
  /\ newSid = None
  /\ msgCount = 0
  /\ persisted = <<>>
  /\ cycle = NewCycle
  /\ result = NoResult
  \* with --development-id the Manager has already inserted the row
  /\ jobStatus = IF developmentId THEN "PROCESSING" ELSE "NONE"
  /\ jobSession = None
  /\ statusLog = <<>>
  /\ gitCommits = <<>>
  /\ calls = <<>>
  /\ outcomes = <<>>
  /\ waits = <<>>
  /\ GemIdle
  /\ MgrIdle
  /\ LogIdle

Next == CoordinatorNext \/ ExecutorNext

Spec == Init /\ [][Next]_vars

\* The Node event loop runs every ready continuation and fires every timer.
FairSpec == Spec /\ WF_vars(CoordinatorNext)

\* ------------------------------------------------------------------------
\* ExecSpec: executeDevelopmentCycle called directly, for each backend
\* ------------------------------------------------------------------------
CallPrompts == {aiPrompt, BuildErrorPrompt("TS2304: Cannot find name 'Foo'", "")}

ExecCall ==
  /\ pc = "idle"
  /\ UNCHANGED <<gemVars, mgrVars, logVars, prevSession>>
  /\ attempt < MaxCalls
  /\ attempt' = attempt + 1
  /\ \E b \in Backends, prompt \in CallPrompts, sid \in {None, PrevToken} :
       /\ EnterCycle(b, prompt, sid)
       /\ calls' = Append(calls,
             [attempt |-> attempt + 1, prompt |-> prompt, token |-> sid])
  \* every call works on a job record that is still PROCESSING
  /\ jobStatus' = "PROCESSING"
  /\ pc' = "stream"
  /\ UNCHANGED <<agentType, shouldResume, developmentId, currentAiPrompt,
                 sessionId, developmentRecord, err>>
  /\ UNCHANGED <<jobSession, statusLog, gitCommits, outcomes, waits>>

\* the call returned (pc = "ret") or threw (pc = "catch")
ExecReturn ==
  /\ pc \in {"ret", "catch"}
  /\ UNCHANGED <<gemVars, mgrVars, logVars, prevSession>>
  /\ pc' = "idle"
  /\ UNCHANGED <<agentType, shouldResume, developmentId, attempt,
                 currentAiPrompt, sessionId, developmentRecord, err>>
  /\ UNCHANGED <<execVars, jobVars, histVars>>

ExecInit ==
  /\ agentType = "claude-code"
  /\ shouldResume = FALSE
  /\ developmentId = TRUE
  /\ pc = "idle"
  /\ attempt = 0
  /\ currentAiPrompt = aiPrompt
  /\ sessionId = None
  /\ developmentRecord = TRUE
  /\ err = "none"
  /\ prevSession = [token |-> None, lookup |-> "none"]
  /\ backend = "none"
  /\ argPrompt = <<>>
  /\ argSession = None
  /\ newSid = None
  /\ msgCount = 0
  /\ persisted = <<>>
  /\ cycle = NewCycle
  /\ result = NoResult
  /\ jobStatus = "PROCESSING"
  /\ jobSession = None
  /\ statusLog = <<>>
  /\ gitCommits = <<>>
  /\ calls = <<>>
  /\ outcomes = <<>>
  /\ waits = <<>>
  /\ GemIdle
  /\ MgrIdle
  /\ LogIdle

ExecNext == ExecCall \/ ExecReturn \/ ExecutorNext

ExecSpec == ExecInit /\ [][ExecNext]_vars

\* ------------------------------------------------------------------------
\* EarlierSpec: the earlier executeClaudeCode that the repository also holds
\* ------------------------------------------------------------------------
\* One iteration of the earlier message loop: only InsufficientCreditError
\* marks the job ERROR and is rethrown; after any other save failure the
\* loop logs "Continuing processing despite database save failure" and
\* pulls the next message.
StreamMessageEarlier ==
  /\ pc = "stream"
  /\ backend = "claude-code"
  /\ UNCHANGED <<gemVars, mgrVars, logVars, prevSession>>
  /\ msgCount < MaxMsgs
  /\ \E tok \in Tokens, save \in {"ok"} \cup SaveErrors :
       /\ newSid' = tok
       /\ msgCount' = msgCount + 1
       /\ persisted' = IF save = "ok" /\ developmentRecord
                        THEN Append(persisted, msgCount + 1) ELSE persisted
       /\ IF save = "InsufficientCreditError" /\ developmentRecord
          THEN /\ updateDevelopmentStatusToError("executor", developmentRecord, tok)
               /\ err' = save
               /\ outcomes' = Append(outcomes, Outcome(save, None, <<>>))
               /\ pc' = "catch"
          ELSE /\ pc' = "stream"
               /\ UNCHANGED <<err, jobVars, outcomes>>
  /\ UNCHANGED <<agentType, shouldResume, developmentId, attempt,
                 currentAiPrompt, sessionId, developmentRecord>>
  /\ UNCHANGED <<backend, argPrompt, argSession, cycle, result>>
  /\ UNCHANGED <<calls, waits>>

\* the codex executor has one version only
StreamMessageCodex == backend = "codex" /\ StreamMessage

EarlierNext ==
  \/ ExecCall \/ ExecReturn
  \/ StreamMessageEarlier \/ StreamMessageCodex
  \/ StreamThrows \/ StreamEnd \/ Build \/ Complete

EarlierSpec == ExecInit /\ [][EarlierNext]_vars

\* The messages 1..n in stream order
FirstMessages(n) == [i \in 1..n |-> i]

\* C34: every message pulled from the backend stream is handed to the store
\* once, in stream order, before the next one is pulled; when the store
\* rejects a message the executor stops there: nothing later is persisted,
\* the job is marked ERROR and the error is thrown to the caller.
C34_MessagesPersisted ==
  /\ (pc \in {"stream", "build", "complete", "ret"})
        => persisted = FirstMessages(msgCount)
  /\ (pc = "catch" /\ err \in SaveErrors)
        => /\ persisted = FirstMessages(msgCount - 1)
           /\ jobStatus = "ERROR"


\* ------------------------------------------------------------------------
\* Permission profile each backend gives its process / session
\* ------------------------------------------------------------------------
\* File paths and glob patterns are sequences of segments; "**" stands for
\* any number of segments.
RECURSIVE GlobMatch(_, _)
GlobMatch(pat, path) ==
  IF pat = <<>> THEN path = <<>>
  ELSE IF Head(pat) = "**"
  THEN GlobMatch(Tail(pat), path) \/ (path # <<>> /\ GlobMatch(pat, Tail(path)))
  ELSE path # <<>> /\ Head(pat) = Head(path) /\ GlobMatch(Tail(pat), Tail(path))

EditTools == {"Edit", "MultiEdit", "Write"}

\* The file patterns of the disallowedTools entries of createQueryOptions
\* (each pattern is listed for Edit, MultiEdit and Write).
ClaudeDeniedPatterns ==
  { <<"**", "shared", "lib", "pocketbase.ts">>,
    <<"**", "features", "auth", "model", "useAuth.ts">>,
    <<"**", "features", "auth", "ui", "LoginForm.tsx">>,
    <<"**", "features", "auth", "model", "validation.ts">>,
    <<"**", "app", "layout.tsx">>,
    <<"**", "app", "providers", "auth-provider.tsx">>,
    <<"**", "shared", "server", "**">>,
    <<"**", "pocketbase.ts">>,
    <<"**", "features", "auth", "**">> }

\* createQueryOptions(sessionId, model).disallowedTools of claude-code: the
\* list is a literal, the same for every session id and model
createQueryOptions(sid, model) ==
  [model |-> IF model = None THEN "claude-sonnet-4" ELSE model,
   permissionMode |-> "acceptEdits",
   resume |-> sid,
   disallowedTools |-> {<<t, pat>> : t \in EditTools, pat \in ClaudeDeniedPatterns}]

\* createThreadOptions(model) of codex: workingDirectory, skipGitRepoCheck,
\* model and sandboxMode; ThreadOptions carries no tool or path exclusion
createThreadOptions(model) ==
  [model |-> IF model = None THEN "gpt-5-codex" ELSE model,
   sandboxMode |-> "workspace-write",
   disallowedTools |-> {}]

\* query() of the Gemini wrapper: a non-empty disallowedTools option is
\* answered with a warning and no CLI argument is derived from it
GeminiArgs(model, disallowedTools) ==
  [model |-> IF model = None THEN "gemini-2.5-pro" ELSE model,
   disallowedTools |-> {}]

\* The exclusions in force for a session of backend b.
DenyList(b, sid, model) ==
  IF b = "claude-code" THEN createQueryOptions(sid, model).disallowedTools
  ELSE IF b = "codex" THEN createThreadOptions(model).disallowedTools
  ELSE GeminiArgs(model, createQueryOptions(sid, model).disallowedTools).disallowedTools

Denied(list, tool, path) == \E e \in list : e[1] = tool /\ GlobMatch(e[2], path)

\* authentication files, the persistence-binding file, the layout file
ProtectedFiles ==
  { <<"src", "features", "auth", "model", "useAuth.ts">>,
    <<"src", "features", "auth", "ui", "LoginForm.tsx">>,
    <<"src", "features", "auth", "model", "validation.ts">>,
    <<"src", "shared", "lib", "pocketbase.ts">>,
    <<"app", "layout.tsx">> }

Models == {None, "m1"}

\* ------------------------------------------------------------------------
\* Properties of the Coordinator and the executors
\* ------------------------------------------------------------------------
Attempts(kind) == {outcomes[i].attempt : i \in {j \in 1..Len(outcomes) : outcomes[j].kind = kind}}
OutcomeOf(k) == CHOOSE o \in {outcomes[i] : i \in 1..Len(outcomes)} : o.attempt = k
CalledAttempts == {calls[j].attempt : j \in 1..Len(calls)}
CallOf(k) == CHOOSE c \in {calls[j] : j \in 1..Len(calls)} : c.attempt = k
NonBuildErrors == {"InsufficientCreditError", "PersistenceError", "AdapterError", "RecordError"}
CoordinatorFinished == pc = "done" \/ (pc = "exit1" /\ attempt > 0)

\* C1: a build failure on attempt k < maxRetries is always followed by an
\* attempt k+1, called with the buildErrorPrompt and with the session token
\* that attempt k returned.
C1_RetryArgs ==
  \A k \in Attempts("buildfail") :
    (k < maxRetries /\ (k + 1) \in CalledAttempts) =>
      /\ CallOf(k + 1).prompt = OutcomeOf(k).buildErrorPrompt
      /\ CallOf(k + 1).token = OutcomeOf(k).sessionId
C1_RetryStarted ==
  \A k \in 1..(maxRetries - 1) :
    (k \in Attempts("buildfail")) ~> ((k + 1) \in CalledAttempts)
C1_BuildFailureRetried == []C1_RetryArgs /\ C1_RetryStarted
C1_Witness ==
  /\ 1 \in Attempts("buildfail")
  /\ 2 \in CalledAttempts
  /\ CallOf(2).prompt # aiPrompt

C3_CreditErrorIsFatal ==
  (1 \in Attempts("InsufficientCreditError")) =>
     /\ jobStatus = "ERROR"
     /\ attempt = 1
     /\ waits = <<>>
     /\ pc # "backoff"

\* C4 (as claimed): an error other than a BuildError, on any attempt, ends
\* the job: no later attempt is made and the status is ERROR when the
\* Coordinator has handled it.
C4_OnlyBuildErrorRetried ==
  \A k \in 1..maxRetries :
    (k \in Attempts("InsufficientCreditError") \cup Attempts("PersistenceError")
          \cup Attempts("AdapterError") \cup Attempts("RecordError")) =>
       /\ attempt = k
       /\ pc # "backoff"
       /\ (pc = "exit1" /\ jobStatus # "NONE") => jobStatus = "ERROR"

\* C5 (as claimed): when the Coordinator has finished, the job status has
\* been written exactly once.
C5_StatusWrittenOnce ==
  (CoordinatorFinished /\ jobStatus # "NONE") => Len(statusLog) = 1

\* C6 (as claimed): COMPLETED and ERROR are terminal, no write changes a
\* status that is already COMPLETED or ERROR.
C6_TerminalStatusKept ==
  [][(jobStatus \in {"COMPLETED", "ERROR"}) => (jobStatus' = jobStatus)]_vars

C8_SuccessNeedsBuild ==
  /\ (pc = "ret" /\ result.success) =>
        (cycle.streamDone /\ cycle.buildRan /\ cycle.buildOk)
  /\ cycle.buildRan => cycle.streamDone
C8_Witness == pc = "ret" /\ result.success /\ backend = "codex" /\ msgCount > 0

\* C21: an --agent name that is not in the registry ends the run at the
\* validation, with a report that lists the registered names, before a job
\* record is created or loaded, before any status is written and before any
\* backend is invoked; createAgent succeeds for exactly the names that
\* getAvailableAgents returns, and its error lists the same names.
C21_UnknownAgentFailsFast ==
  /\ (createAgent(agentType) # "throw") <=> (agentType \in getAvailableAgents)
  /\ (agentType \notin getAvailableAgents) =>
        /\ pc \in {"validate", "exit1"}
        /\ attempt = 0
        /\ ~developmentRecord
        /\ jobStatus = (IF developmentId THEN "PROCESSING" ELSE "NONE")
        /\ statusLog = <<>>
        /\ calls = <<>>
        /\ backend = "none"
        /\ UnknownAgentReport(agentType).available = getAvailableAgents
        /\ createAgentError(agentType).available = getAvailableAgents
\* C22 (as claimed): whichever backend executes the call, and whatever the
\* session token and model, the session it builds denies Edit, MultiEdit
\* and Write on every protected file.
C22_DenyListAlways ==
  (backend \in Backends) =>
     \A m \in Models : \A f \in ProtectedFiles : \A t \in EditTools :
        Denied(DenyList(backend, argSession, m), t, f)

C21_Witness ==
  /\ pc = "exit1"
  /\ attempt = 0
  /\ agentType = "codex"
  /\ ~developmentId
  /\ jobStatus = "NONE"

\* C24: a failed build never makes executeDevelopmentCycle throw: the call
\* returns success:false with a buildErrorPrompt that contains the stderr
\* text of the build, and the job status is not set to COMPLETED; a call
\* that throws does so with the error that arose (never a BuildError), and
\* before the build step.
C24_BuildFailureIsAResult ==
  /\ (cycle.buildRan /\ ~cycle.buildOk) =>
        /\ pc \in {"ret", "idle"}
        /\ ~result.success
        /\ result.buildErrorPrompt # <<>>
        /\ (cycle.buildStderr # "") =>
              \E i \in 1..Len(result.buildErrorPrompt) :
                 result.buildErrorPrompt[i] = cycle.buildStderr
        /\ ~cycle.completedWritten
        /\ jobStatus # "COMPLETED"
        /\ outcomes[Len(outcomes)].kind = "buildfail"
  /\ (pc = "catch") =>
        /\ err \in NonBuildErrors
        /\ outcomes[Len(outcomes)].kind = err
        /\ ~cycle.buildRan
C24_Witness ==
  /\ pc = "ret"
  /\ backend = "codex"
  /\ ~result.success
  /\ cycle.buildStderr = "TS2304: Cannot find name 'Foo'"

\* C25: the i-th back-off wait follows attempt i and lasts 2^(i-1) seconds
\* (1 s, then 2 s); the attempt counter only ever grows by one, at the top
\* of the loop; there is no wait after the last permitted attempt or after
\* a successful one.
C25_WaitsSoFar ==
  /\ \A i \in 1..Len(waits) : waits[i] = 2 ^ (i - 1)
  /\ Len(waits) <= maxRetries - 1
  /\ (pc = "loop") => Len(waits) = attempt
  /\ (pc \in {"stream", "build", "complete", "ret", "catch", "backoff",
               "fatal", "done"}) => Len(waits) = attempt - 1
  /\ (pc = "exit1") => Len(waits) = (IF attempt = 0 THEN 0 ELSE attempt - 1)
  /\ (pc = "backoff") => (attempt < maxRetries /\ attempt \notin Attempts("success"))
C25_CounterStep ==
  [][(attempt' # attempt) => (attempt' = attempt + 1 /\ pc = "loop")]_vars
C25_ExponentialBackoff == []C25_WaitsSoFar /\ C25_CounterStep
C25_Witness ==
  /\ waits = <<1, 2>>
  /\ pc = "done"
  /\ attempt = maxRetries

\* C26: the first attempt is called with a token only if --resume was given
\* and a previous token is stored for the miniapp, and then with that
\* token; without --resume it is called with no token and no lookup is
\* made; a failed lookup does not end the run, the first attempt is made
\* with no token.
C26_FirstToken ==
  LET expected == IF shouldResume /\ prevSession.lookup = "ok"
                  THEN prevSession.token ELSE None IN
  /\ (Len(calls) >= 1) => calls[1].token = expected
  /\ (pc = "loop" /\ attempt = 0) => sessionId = expected
  /\ ~shouldResume => prevSession.lookup = "none"
  /\ (prevSession.lookup = "failed") => (pc = "exit1" => attempt > 0)
C26_LookupFailureProceeds ==
  (prevSession.lookup = "failed") ~> (attempt >= 1)
C26_ResumeOnlyOnRequest == []C26_FirstToken /\ C26_LookupFailureProceeds
C26_Witness ==
  /\ shouldResume
  /\ prevSession = [token |-> PrevToken, lookup |-> "failed"]
  /\ Len(calls) >= 1
  /\ calls[1].token = None

\* C27: the attempts of a run are strictly sequential.  At most one call of
\* executeDevelopmentCycle (stream, build, completion) is unfinished at any
\* time and it is the current attempt; attempt k+1 begins only when every
\* attempt up to k has ended with an outcome and k back-off waits are over.
Finished(k) == \E i \in 1..Len(outcomes) : outcomes[i].attempt = k
InProgress == {k \in CalledAttempts : ~Finished(k)}
C27_OneAtATime ==
  /\ Cardinality(InProgress) <= 1
  /\ InProgress \subseteq {attempt}
  /\ (pc \in {"stream", "build", "complete"}) <=> (InProgress = {attempt})
  /\ \A i \in 1..Len(outcomes) : outcomes[i].attempt = i
  /\ \A j \in 1..Len(calls) : \A i \in 1..Len(calls) :
        (i < j) => calls[i].attempt < calls[j].attempt
C27_NextAfterPrevious ==
  [][(attempt' # attempt) =>
        /\ pc = "loop"
        /\ InProgress = {}
        /\ Len(outcomes) = attempt
        /\ Len(waits) = attempt]_vars
C27_AttemptsSequential == []C27_OneAtATime /\ C27_NextAfterPrevious
C27_Witness ==
  /\ attempt = maxRetries
  /\ pc = "build"
  /\ Len(calls) = maxRetries
  /\ Len(waits) = maxRetries - 1

\* C33 (as claimed): the source-control sync is invoked only when the job
\* status is already COMPLETED, never while it is still PROCESSING, and
\* never in an attempt whose build failed.
C33_SyncAfterCompleted ==
  /\ \A i \in 1..Len(gitCommits) : gitCommits[i] = "COMPLETED"
  /\ (Len(gitCommits) > 0) => (Attempts("success") # {})

\* C38: the first call gets the original instruction; a later call gets
\* the build-error prompt of the attempt before it when that attempt ended
\* in a build failure, and the original instruction after any other error,
\* also when the failed attempt was itself run with a build-error prompt.
IsBuildErrorPrompt(p) ==
  Len(p) >= 2 /\ p[1] = "Previous build failed with the following error."
C38_PromptFollowsLastOutcome ==
  \A k \in CalledAttempts :
    IF k = 1 THEN CallOf(k).prompt = aiPrompt
    ELSE IF OutcomeOf(k - 1).kind = "buildfail"
    THEN /\ CallOf(k).prompt = OutcomeOf(k - 1).buildErrorPrompt
         /\ IsBuildErrorPrompt(CallOf(k).prompt)
    ELSE CallOf(k).prompt = aiPrompt
C38_Witness ==
  /\ Len(calls) = 3
  /\ Len(outcomes) >= 2
  /\ outcomes[1].kind = "buildfail"
  /\ IsBuildErrorPrompt(calls[2].prompt)
  /\ outcomes[2].kind \in NonBuildErrors
  /\ calls[3].prompt = aiPrompt

\* C23 (as claimed): when the stream of attempt k produced a session token
\* and the build of attempt k failed, attempt k+1 is called with that token.
\* (newSid still holds the token attempt k tracked when attempt k+1 starts.)
C23_RetryResumesConversation ==
  [][(/\ Len(calls') = Len(calls) + 1
      /\ attempt \in Attempts("buildfail")
      /\ msgCount > 0
      /\ newSid # None)
        => calls'[Len(calls')].token = newSid]_vars


\* ------------------------------------------------------------------------
\* Unstructured stream adapter: Stream<T>, GeminiQuery and query()
\* ------------------------------------------------------------------------
\* output lines the CLI prints in one run
MaxLines == 2

\* The text of a line of CLI output without its surrounding white space:
\* "" is a blank line.
NoiseLines == {"[DEBUG] trace", "warn DeprecationWarning"}
LineTexts == {"", "hello", "[DEBUG] trace"}

\* A line as readline delivers it: the text, with or without white space
\* around it.
RawLines == [pad : BOOLEAN, text : LineTexts]

\* line.trim(): the same text with nothing around it
Trim(raw) == [pad |-> FALSE, text |-> raw.text]

\* the empty string
Blank == [pad |-> FALSE, text |-> ""]

\* A variant of the classifier that flags nothing.
isDebugOrMetaLine_Nothing(line) == FALSE

\* GeminiQuery.isDebugOrMetaLine(cleanLine): prefix and substring tests,
\* and the empty string
isDebugOrMetaLine(line) == line.text \in NoiseLines \/ line = Blank

Msg(type, subtype, text) == [type |-> type, subtype |-> subtype, text |-> text]
SystemMessage == Msg("system", "init", <<>>)
AssistantMessage(line) == Msg("assistant", "", <<line>>)
\* sendResultMessage(result, isError)
ResultMessage(text, isError) ==
  IF isError THEN Msg("result", "error_during_execution", <<>>)
             ELSE Msg("result", "success", text)

\* The channel and its consumer change together (a resolve or reject of the
\* pending read settles the consumer's next()), so the Stream methods map a
\* pair [s |-> stream, c |-> consumer] to the pair after the call.

\* A variant of enqueue that has no buffer: a value is kept only when a
\* read is parked.
StreamEnqueue_Unbuffered(sc, v) ==
  IF sc.s.readResolve
  THEN [s |-> [sc.s EXCEPT !.readResolve = FALSE],
        c |-> [at |-> "idle", received |-> Append(sc.c.received, v)]]
  ELSE sc

\* Stream.enqueue(value)
StreamEnqueue(sc, v) ==
  IF sc.s.readResolve
  THEN [s |-> [sc.s EXCEPT !.readResolve = FALSE],
        c |-> [at |-> "idle", received |-> Append(sc.c.received, v)]]
  ELSE [s |-> [sc.s EXCEPT !.queue = Append(@, v)], c |-> sc.c]

\* Stream.done()
StreamDone(sc) ==
  [s |-> [sc.s EXCEPT !.isDone = TRUE, !.readResolve = FALSE],
   c |-> IF sc.s.readResolve THEN [sc.c EXCEPT !.at = "ended"] ELSE sc.c]

\* A variant of error() that stores the error and leaves a parked read
\* alone.
StreamError_NoWake(sc, e) == [s |-> [sc.s EXCEPT !.hasError = e], c |-> sc.c]

\* Stream.error(error)
StreamError(sc, e) ==
  [s |-> [sc.s EXCEPT !.hasError = e, !.readResolve = FALSE],
   c |-> IF sc.s.readResolve THEN [sc.c EXCEPT !.at = "threw"] ELSE sc.c]

\* Stream.next(), called by the consumer: a queued value first, then
\* end-of-stream if done, then the stored error, else the read is parked.
StreamNext(sc) ==
  IF Len(sc.s.queue) > 0
  THEN [s |-> [sc.s EXCEPT !.queue = Tail(@)],
        c |-> [at |-> "idle", received |-> Append(sc.c.received, Head(sc.s.queue))]]
  ELSE IF sc.s.isDone
  THEN [s |-> sc.s, c |-> [sc.c EXCEPT !.at = "ended"]]
  ELSE IF sc.s.hasError # "none"
  THEN [s |-> sc.s, c |-> [sc.c EXCEPT !.at = "threw"]]
  ELSE [s |-> [sc.s EXCEPT !.readResolve = TRUE],
        c |-> [sc.c EXCEPT !.at = "waiting"]]

SC == [s |-> inputStream, c |-> consumer]

SetSC(sc) == inputStream' = sc.s /\ consumer' = sc.c

\* The consumer (for await over the query) asks for the next message.
GemNext ==
  /\ consumer.at = "idle"
  /\ SetSC(StreamNext([s |-> [inputStream EXCEPT !.started = TRUE], c |-> consumer]))
  /\ UNCHANGED <<child, processExitPromise, reader, second, produced, cliVars, mgrVars, logVars>>

\* readMessages, one line of `for await (const line of rl)`: a line that is
\* not blank goes to outputBuffer as it is; if its trimmed text is not
\* flagged by the classifier, the trimmed text goes to aiResponseBuffer and
\* into an assistant message.
GemReadLine ==
  /\ reader.at = "reading"
  /\ reader.lines < MaxLines
  /\ child.state # "spawnfail"
  /\ \E line \in RawLines :
       LET cleanLine == Trim(line) IN
       IF cleanLine # Blank
       THEN /\ reader' = [reader EXCEPT
                 !.lines = @ + 1,
                 !.numTurns = @ + 1,
                 !.outputBuffer = Append(@, line),
                 !.aiResponseBuffer =
                     IF isDebugOrMetaLine(cleanLine) THEN @ ELSE Append(@, cleanLine)]
            /\ IF isDebugOrMetaLine(cleanLine)
               THEN UNCHANGED <<inputStream, consumer>>
               ELSE SetSC(StreamEnqueue(SC, AssistantMessage(cleanLine)))
       ELSE /\ reader' = [reader EXCEPT !.lines = @ + 1]
            /\ UNCHANGED <<inputStream, consumer>>
  /\ UNCHANGED <<child, processExitPromise, second, produced, cliVars, mgrVars, logVars>>

\* stdout reaches end of file once the process is gone: the readline loop
\* ends and readMessages awaits processExitPromise.
GemStdoutEnd ==
  /\ reader.at = "reading"
  /\ child.state = "exited"
  /\ reader' = [reader EXCEPT !.at = "awaitExit"]
  /\ UNCHANGED <<child, processExitPromise, inputStream, consumer, second, produced, cliVars, mgrVars, logVars>>

\* aiResponseBuffer.trim() || outputBuffer.trim(): the forwarded lines, or
\* when there are none every line that was read (trim() of a buffer only
\* removes white space at its two ends)
FinalText(r) == IF r.aiResponseBuffer # <<>> THEN r.aiResponseBuffer ELSE r.outputBuffer

\* readMessages after the loop: the try / catch / finally around the await
ReadMessagesEnd(sc, r, p) ==
  IF p = "resolved"
  THEN StreamDone(StreamEnqueue(sc, ResultMessage(FinalText(r), FALSE)))
  ELSE StreamDone(StreamError(StreamEnqueue(sc, ResultMessage(<<>>, TRUE)), p))

GemReaderFinish ==
  /\ reader.at = "awaitExit"
  /\ processExitPromise # "pending"
  /\ SetSC(ReadMessagesEnd(SC, reader, processExitPromise))
  /\ reader' = [reader EXCEPT !.at = "finished"]
  /\ UNCHANGED <<child, processExitPromise, second, produced, cliVars, mgrVars, logVars>>

\* exit codes of the CLI; NullCode is the `null` of a death by signal
ExitCodes == {0, 1, NullCode}

\* child.on('close', code => ...) of processExitPromise
CloseSettles(p, aborted, code) ==
  IF p # "pending" THEN p
  ELSE IF aborted THEN "AbortError"
  ELSE IF code # 0 THEN "ExitError"
  ELSE "resolved"

\* The process ends and its 'close' event is delivered.
GemProcClose ==
  /\ child.state = "running"
  /\ \E code \in ExitCodes :
       /\ (code = NullCode) => child.sigterms > 0
       /\ processExitPromise' = CloseSettles(processExitPromise, child.aborted, code)
  /\ child' = [child EXCEPT !.state = "exited"]
  /\ UNCHANGED <<reader, inputStream, consumer, second, produced, cliVars, mgrVars, logVars>>

\* the two child.on('error') listeners: the promise is rejected, then
\* geminiQuery.setError stores the error in the channel
ErrorSettles(p, aborted) ==
  IF p # "pending" THEN p ELSE IF aborted THEN "AbortError" ELSE "SpawnError"

\* The CLI could not be spawned: 'error' is emitted on the next tick.
GemSpawnError ==
  /\ child.state = "spawnfail"
  /\ processExitPromise' = ErrorSettles(processExitPromise, child.aborted)
  /\ SetSC(StreamError(SC, IF child.aborted THEN "AbortError" ELSE "SpawnError"))
  /\ child' = [child EXCEPT !.state = "exited"]
  /\ UNCHANGED <<reader, second, produced, cliVars, mgrVars, logVars>>

\* abortController.abort(): spawn's `signal` option kills the running child
\* and emits 'error' on it; after the process is gone only the flag is set.
GemAbort ==
  /\ ~child.aborted
  /\ child.state \in {"running", "exited"}
  /\ IF child.state = "running"
     THEN /\ child' = [child EXCEPT !.aborted = TRUE, !.killed = TRUE,
                                    !.sigterms = @ + 1]
          /\ processExitPromise' = ErrorSettles(processExitPromise, TRUE)
          /\ SetSC(StreamError(SC, "AbortError"))
     ELSE /\ child' = [child EXCEPT !.aborted = TRUE]
          /\ UNCHANGED <<processExitPromise, inputStream, consumer>>
  /\ UNCHANGED <<reader, second, produced, cliVars, mgrVars, logVars>>

\* A variant of interrupt() that signals without looking at `killed`.
GemInterrupt_Always ==
  /\ child.state = "running"
  /\ child' = [child EXCEPT !.killed = TRUE, !.sigterms = @ + 1]
  /\ UNCHANGED <<processExitPromise, reader, inputStream, consumer, second, produced, cliVars, mgrVars, logVars>>

\* GeminiQuery.interrupt()
GemInterrupt ==
  /\ child.state = "running"
  /\ ~child.killed
  /\ child' = [child EXCEPT !.killed = TRUE, !.sigterms = @ + 1]
  /\ UNCHANGED <<processExitPromise, reader, inputStream, consumer, second, produced, cliVars, mgrVars, logVars>>

\* Stream[Symbol.asyncIterator](): throws when the channel was already
\* started, else marks it started and returns it
StreamIterate(st) == IF st.started THEN "throw" ELSE "ok"

\* What the first next() of another `for await` over the same GeminiQuery
\* gives.  GeminiQuery[Symbol.asyncIterator]() returns the one generator
\* sdkMessages without any check: when that generator has finished, next()
\* resolves {done: true}; while it is suspended between two messages the
\* call resumes it, and it pulls from the channel for the new caller.
SecondNext(over, st) ==
  IF over THEN "ended"
  ELSE IF Len(st.queue) > 0 THEN "yielded"
  ELSE IF st.isDone THEN "ended"
  ELSE IF st.hasError # "none" THEN "threw"
  ELSE "waiting"

\* A second iteration of the adapter is attempted after the first one has
\* started.
GemSecondIteration ==
  /\ second = "none"
  /\ inputStream.started
  /\ consumer.at \in {"idle", "ended", "threw"}
  /\ LET out == SecondNext(consumer.at # "idle", inputStream) IN
     /\ out # "waiting"
     /\ second' = out
     /\ inputStream' = IF out = "yielded"
                        THEN [inputStream EXCEPT !.queue = Tail(@)]
                        ELSE inputStream
  /\ UNCHANGED <<child, processExitPromise, reader, consumer, produced, cliVars, mgrVars, logVars>>

\* query() has returned: the process is spawned (or the spawn failed), the
\* constructor has started readMessages, which has already enqueued the
\* system message.
GemInit ==
  /\ child \in [state : {"running", "spawnfail"}, killed : {FALSE},
                aborted : {FALSE}, sigterms : {0}]
  /\ processExitPromise = "pending"
  /\ reader = [at |-> "reading", lines |-> 0, numTurns |-> 0,
               outputBuffer |-> <<>>, aiResponseBuffer |-> <<>>]
  /\ inputStream = [queue |-> <<SystemMessage>>, readResolve |-> FALSE,
                    isDone |-> FALSE, hasError |-> "none", started |-> FALSE]
  /\ consumer = [at |-> "idle", received |-> <<>>]
  /\ second = "none"
  /\ produced = <<>>
  /\ CliIdle
  /\ MgrIdle
  /\ LogIdle

GemNextStep ==
  \/ GemNext \/ GemReadLine \/ GemStdoutEnd \/ GemReaderFinish
  \/ GemProcClose \/ GemSpawnError \/ GemAbort \/ GemInterrupt

GemSpec == GemInit /\ [][GemNextStep]_vars

\* The event loop delivers every event that is due, a started CLI process
\* comes to an end, and the consumer keeps asking for the next message.
GemFairSpec ==
  /\ GemSpec
  /\ WF_vars(GemNext) /\ WF_vars(GemStdoutEnd) /\ WF_vars(GemReaderFinish)
  /\ WF_vars(GemProcClose) /\ WF_vars(GemSpawnError)

\* The adapter used by a caller that iterates it a second time.
GemTwiceNext == GemNextStep \/ GemSecondIteration

GemTwiceSpec == GemInit /\ [][GemTwiceNext]_vars

\* ------------------------------------------------------------------------
\* ChanSpec: the Stream<T> channel on its own, one producer, one consumer
\* ------------------------------------------------------------------------
\* values the producer enqueues before it calls done()
MaxVals == 3

ChanValues == {"a", "b"}

\* The producer calls enqueue(value); like readMessages it enqueues
\* nothing once it has called done().
ChanEnqueue ==
  /\ ~inputStream.isDone
  /\ Len(produced) < MaxVals
  /\ \E v \in ChanValues :
       /\ SetSC(StreamEnqueue(SC, v))
       /\ produced' = Append(produced, v)
  /\ UNCHANGED <<child, processExitPromise, reader, second, cliVars, mgrVars, logVars>>

\* The producer calls done().
ChanDone ==
  /\ ~inputStream.isDone
  /\ SetSC(StreamDone(SC))
  /\ UNCHANGED <<child, processExitPromise, reader, second, produced, cliVars, mgrVars, logVars>>

\* A new Stream; the consumer is about to iterate it.
ChanInit ==
  /\ child = [state |-> "none", killed |-> FALSE, aborted |-> FALSE, sigterms |-> 0]
  /\ processExitPromise = "pending"
  /\ reader = [at |-> "none", lines |-> 0, numTurns |-> 0,
               outputBuffer |-> <<>>, aiResponseBuffer |-> <<>>]
  /\ inputStream = [queue |-> <<>>, readResolve |-> FALSE, isDone |-> FALSE,
                    hasError |-> "none", started |-> FALSE]
  /\ consumer = [at |-> "idle", received |-> <<>>]
  /\ second = "none"
  /\ produced = <<>>
  /\ CliIdle
  /\ MgrIdle
  /\ LogIdle

\* GemNext is the consumer's `await next()` of a for-await loop.
ChanNext == ChanEnqueue \/ ChanDone \/ GemNext

ChanSpec == ChanInit /\ [][ChanNext]_vars

\* every started read is answered
ChanFairSpec == ChanSpec /\ WF_vars(ChanDone) /\ WF_vars(GemNext)

\* ------------------------------------------------------------------------
\* Properties of the adapter
\* ------------------------------------------------------------------------
IterationOver == consumer.at \in {"ended", "threw"}
ResultCount(seq) == Cardinality({i \in 1..Len(seq) : seq[i].type = "result"})
SystemCount(seq) == Cardinality({i \in 1..Len(seq) : seq[i].type = "system"})

\* C29: the assistant messages the adapter has emitted (delivered or still
\* buffered) are, in line order, one per line read so far whose trimmed
\* text is neither empty nor noise, each carrying that trimmed text; noise
\* lines and empty lines produce no assistant message.
Emitted == consumer.received \o inputStream.queue
IsAssistant(m) == m.type = "assistant"
IsForwardable(raw) == raw.text # "" /\ raw.text \notin NoiseLines
C29_OneMessagePerLine ==
  LET forwarded == SelectSeq(reader.outputBuffer, IsForwardable)
      messages == SelectSeq(Emitted, IsAssistant) IN
  /\ Len(messages) = Len(forwarded)
  /\ \A i \in 1..Len(messages) :
        messages[i] = [type |-> "assistant", subtype |-> "",
                       text |-> <<[pad |-> FALSE, text |-> forwarded[i].text]>>]
  /\ \A i \in 1..Len(Emitted) :
        IsAssistant(Emitted[i]) =>
           (Emitted[i].text[1].text # "" /\ Emitted[i].text[1].text \notin NoiseLines)
C29_Witness ==
  /\ reader.lines = MaxLines
  /\ Len(reader.outputBuffer) = 2
  /\ reader.outputBuffer[1] = [pad |-> TRUE, text |-> "[DEBUG] trace"]
  /\ reader.outputBuffer[2] = [pad |-> TRUE, text |-> "hello"]
  /\ Len(consumer.received) = 2
  /\ consumer.received[2] = AssistantMessage([pad |-> FALSE, text |-> "hello"])

\* C30 (as claimed): after a clean exit the result message has subtype
\* success and its text is exactly the forwarded lines, so it holds no
\* noise line; after any other exit the result message has subtype
\* error_during_execution.
C30_ResultText ==
  \A i \in 1..Len(Emitted) :
    (Emitted[i].type = "result") =>
       IF processExitPromise = "resolved"
       THEN /\ Emitted[i].subtype = "success"
            /\ Emitted[i].text = reader.aiResponseBuffer
            /\ \A j \in 1..Len(Emitted[i].text) :
                  Emitted[i].text[j].text \notin NoiseLines
       ELSE Emitted[i].subtype = "error_during_execution"

\* C31 (as claimed): when the CLI could not be spawned or the run was
\* aborted, the consumer's iteration never ends normally: it is rejected
\* with the adapter-level error.
C31_FailureIsThrown ==
  (processExitPromise \in {"SpawnError", "AbortError"}) => consumer.at # "ended"

\* C32: interrupt() sends SIGTERM once to a running subprocess and nothing
\* to one that was already killed; when the run is interrupted and not
\* aborted, the iteration comes to an end, it ends normally, and the last
\* message the consumer received is the one result message.
C32_OneSignal ==
  [][(child'.sigterms # child.sigterms /\ ~child'.aborted) =>
        /\ child.state = "running"
        /\ ~child.killed
        /\ child'.killed
        /\ child'.sigterms = 1]_vars
C32_ResultDelivered ==
  (IterationOver /\ child.killed /\ ~child.aborted) =>
     /\ consumer.at = "ended"
     /\ ResultCount(consumer.received) = 1
     /\ consumer.received[Len(consumer.received)].type = "result"
     /\ inputStream.queue = <<>>
C32_IterationEnds ==
  (child.killed /\ ~child.aborted) ~> (IterationOver \/ child.aborted)
C32_InterruptIsCooperative ==
  C32_OneSignal /\ []C32_ResultDelivered /\ C32_IterationEnds
C32_Witness ==
  /\ consumer.at = "ended"
  /\ child.killed
  /\ ~child.aborted
  /\ child.sigterms = 1
  /\ processExitPromise = "ExitError"
  /\ consumer.received[Len(consumer.received)].subtype = "error_during_execution"

\* C37: once done() or error() has been called on the channel no read is
\* left parked, and the consumer's iteration comes to an end (end-of-stream
\* or a rejection, after the buffered values); so the iteration ends
\* whenever the subprocess has exited.
ProducerFinished == inputStream.isDone \/ inputStream.hasError # "none"
C37_NoReadLeftParked ==
  ProducerFinished => (~inputStream.readResolve /\ consumer.at # "waiting")
C37_NextSettles == ProducerFinished ~> IterationOver
C37_ExitEndsIteration == (child.state = "exited") ~> IterationOver
C37_ConsumerNeverStuck ==
  []C37_NoReadLeftParked /\ C37_NextSettles /\ C37_ExitEndsIteration
C37_Witness ==
  /\ consumer.at = "ended"
  /\ inputStream.isDone
  /\ inputStream.queue = <<>>
  /\ reader.at = "finished"
  /\ processExitPromise = "resolved"
  /\ Len(consumer.received) >= 3

\* C28: whatever the interleaving of enqueue, done and next, the consumer
\* has received a prefix of the enqueued values and the rest is buffered; it
\* is told end-of-stream only after done and after it has received every
\* value, each once and in enqueue order; the channel never rejects; and
\* once the producer is done the consumer does reach end-of-stream.
C28_PrefixDelivered ==
  /\ Len(consumer.received) + Len(inputStream.queue) = Len(produced)
  /\ consumer.received \o inputStream.queue = produced
  /\ inputStream.readResolve => (inputStream.queue = <<>> /\ consumer.at = "waiting")
  /\ (consumer.at = "ended") => (inputStream.isDone /\ consumer.received = produced)
  /\ consumer.at # "threw"
C28_AllDelivered ==
  inputStream.isDone ~> (consumer.at = "ended" /\ consumer.received = produced)
C28_ChannelIsFifo == []C28_PrefixDelivered /\ C28_AllDelivered
C28_Witness ==
  /\ consumer.at = "ended"
  /\ Len(produced) = MaxVals
  /\ consumer.received = produced
  /\ produced[1] # produced[2]

\* C9 (as claimed): whatever the lines, the noise and the exit outcome
\* (clean exit, non-zero exit, abort), the messages delivered to the
\* consumer start with exactly one system message, contain exactly one
\* result message, and the result message is the last one.
C9_SystemFirstResultLast ==
  /\ (Len(consumer.received) > 0) =>
        (consumer.received[1].type = "system" /\ SystemCount(consumer.received) = 1)
  /\ ResultCount(consumer.received) <= 1
  /\ (ResultCount(consumer.received) = 1) =>
        consumer.received[Len(consumer.received)].type = "result"
  /\ (IterationOver /\ child.state # "spawnfail" /\ processExitPromise # "SpawnError") =>
        (Len(consumer.received) > 0 /\ ResultCount(consumer.received) = 1)


\* ------------------------------------------------------------------------
\* Job/Session Manager: sessions, process handlers and HTTP operations
\* ------------------------------------------------------------------------
\* A variant of Start that skips the liveness check.
StartCode_NoHealth(valid, health, recordOk) ==
  IF ~valid THEN 400 ELSE IF ~recordOk THEN 500 ELSE 200

\* A variant of Start that skips the validation of the required fields.
StartCode_NoValidation(valid, health, recordOk) ==
  IF health # "200" THEN 503 ELSE IF ~recordOk THEN 500 ELSE 200

\* HTTP status of POST /execute/agent
StartCode(valid, health, recordOk) ==
  IF ~valid THEN 400 ELSE IF health # "200" THEN 503
  ELSE IF ~recordOk THEN 500 ELSE 200

\* A variant of Stop that accepts a session of any status.
StopCode_AnyStatus(s) == IF s \notin sessions THEN 404 ELSE 200

\* HTTP status of POST /stop/agent/:sessionId
StopCode(s) ==
  IF s \notin sessions THEN 404
  ELSE IF sess[s].status # "running" THEN 400 ELSE 200

\* HTTP status of DELETE /sessions/agent/:sessionId
DeleteCode(s) == IF s \notin sessions THEN 404 ELSE 200

\* childProcess.kill(signal): delivered only while the process runs
Kill(p, sig) == IF p.state = "running" THEN [p EXCEPT !.signals = @ \cup {sig}] ELSE p

\* `session.exitCode = exitCode || 0`
CloseExitCode(exitCode) == IF exitCode = NullCode THEN 0 ELSE exitCode

\* A variant of the 'close' handler that reports every session that did
\* not fail as completed.
CloseStatus_StoppedCompletes(status, exitCode) ==
  IF exitCode # 0 /\ status # "stopped" THEN "error" ELSE "completed"

\* A variant of the 'close' handler without the exception for stopped
\* sessions.
CloseStatus_NoStopGuard(status, exitCode) ==
  IF exitCode # 0 THEN "error" ELSE "completed"

\* status set by the 'close' handler: a non-zero or null exit code is an
\* error unless the session was stopped
CloseStatus(status, exitCode) ==
  IF exitCode # 0 /\ status # "stopped" THEN "error"
  ELSE IF status = "stopped" THEN "stopped" ELSE "completed"

UsedIds == {s \in SessionIds : sess[s].status # "none"}

\* POST /execute/agent with a request whose required fields are all present
\* (valid) or not, the answer of the frontend server (health), the outcome
\* of createDevelopmentRecord and of spawn: validation, liveness check,
\* creation of the job record, spawn of the CLI, registration of the
\* session with status running.  A failed spawn still returns a
\* ChildProcess; its 'error' event follows on the next tick.
MgrStartWith(s, valid, health, recordOk, spawnOk) ==
  /\ s \in SessionIds \ UsedIds
  /\ IF StartCode(valid, health, recordOk) # 200 THEN
       UNCHANGED <<sessions, sess, proc, stopTimer, devStatus>>
     ELSE
       /\ sessions' = sessions \cup {s}
       /\ sess' = [sess EXCEPT ![s] =
             [status |-> "running", exitCode |-> NullCode, stderr |-> <<>>,
              timeoutHandle |-> "armed"]]
       /\ proc' = [proc EXCEPT ![s] =
             [NoProc EXCEPT !.state = IF spawnOk THEN "running" ELSE "spawnfail"]]
       /\ devStatus' = [devStatus EXCEPT ![s] = "PROCESSING"]
       /\ UNCHANGED stopTimer
  /\ UNCHANGED <<lifeVars, cliVars, gemVars, logVars>>

HealthAnswers == {"200", "500", "unreachable"}

MgrStart ==
  \E s \in SessionIds, valid \in BOOLEAN, health \in HealthAnswers,
     recordOk \in BOOLEAN, spawnOk \in BOOLEAN :
       MgrStartWith(s, valid, health, recordOk, spawnOk)

\* childProcess.on('error', ...) after a failed spawn; 'close' follows with
\* the negative errno as exit code.
MgrSpawnError(s) ==
  /\ proc[s].state = "spawnfail"
  /\ sess' = [sess EXCEPT ![s].status = "error",
                          ![s].stderr = Append(@, "Process error")]
  /\ devStatus' = [devStatus EXCEPT ![s] = "ERROR"]
  /\ proc' = [proc EXCEPT ![s].state = "exited", ![s].exitCode = SpawnErrno]
  /\ UNCHANGED <<sessions, stopTimer, lifeVars, cliVars, gemVars, logVars>>

\* The CLI child (the Coordinator) ends by itself: with code 0 after it set
\* its job COMPLETED, with process.exit(1) after it set the job ERROR or
\* failed before it could load the job record.
ChildExit(s) ==
  /\ proc[s].state = "running"
  /\ \E wrote \in {"COMPLETED", "ERROR", "none"} :
       /\ proc' = [proc EXCEPT ![s].state = "exited",
                               ![s].exitCode = IF wrote = "COMPLETED" THEN 0 ELSE 1]
       /\ devStatus' = [devStatus EXCEPT ![s] = IF wrote = "none" THEN @ ELSE wrote]
  /\ UNCHANGED <<sessions, sess, stopTimer, lifeVars, cliVars, gemVars, logVars>>

\* The child honours a SIGTERM it received (it may also ignore it).
ChildDiesOfSigterm(s) ==
  /\ proc[s].state = "running"
  /\ "SIGTERM" \in proc[s].signals
  /\ proc' = [proc EXCEPT ![s].state = "exited", ![s].exitCode = NullCode]
  /\ UNCHANGED <<sessions, sess, stopTimer, devStatus, lifeVars, cliVars, gemVars, logVars>>

\* SIGKILL cannot be ignored.
ChildDiesOfSigkill(s) ==
  /\ proc[s].state = "running"
  /\ "SIGKILL" \in proc[s].signals
  /\ proc' = [proc EXCEPT ![s].state = "exited", ![s].exitCode = NullCode]
  /\ UNCHANGED <<sessions, sess, stopTimer, devStatus, lifeVars, cliVars, gemVars, logVars>>

\* childProcess.on('close', exitCode => ...)
ProcClose(s) ==
  /\ proc[s].state = "exited"
  /\ ~proc[s].closed
  /\ LET code == proc[s].exitCode
         st == CloseStatus(sess[s].status, code) IN
     /\ sess' = [sess EXCEPT
           ![s].exitCode = CloseExitCode(code),
           ![s].status = st,
           ![s].timeoutHandle = IF @ = "armed" THEN "cleared" ELSE @]
     /\ devStatus' = [devStatus EXCEPT ![s] =
           IF code # 0 /\ sess[s].status # "stopped" THEN "ERROR" ELSE @]
  /\ proc' = [proc EXCEPT ![s].closed = TRUE]
  /\ UNCHANGED <<sessions, stopTimer, lifeVars, cliVars, gemVars, logVars>>

\* A variant of the timeout handler without the check of the status.
MgrTimeout_Always(s) ==
  /\ sess[s].timeoutHandle = "armed"
  /\ proc' = [proc EXCEPT ![s] = Kill(@, "SIGKILL")]
  /\ sess' = [sess EXCEPT ![s].timeoutHandle = "fired",
                          ![s].status = "error",
                          ![s].stderr = Append(@, "Process timeout (5 minutes)")]
  /\ devStatus' = [devStatus EXCEPT ![s] = "ERROR"]
  /\ UNCHANGED <<sessions, stopTimer, lifeVars, cliVars, gemVars, logVars>>

\* the 5-minute setTimeout of setupProcessHandlers
MgrTimeout(s) ==
  /\ sess[s].timeoutHandle = "armed"
  /\ IF sess[s].status = "running"
     THEN /\ proc' = [proc EXCEPT ![s] = Kill(@, "SIGKILL")]
          /\ sess' = [sess EXCEPT ![s].timeoutHandle = "fired",
                                  ![s].status = "error",
                                  ![s].stderr = Append(@, "Process timeout (5 minutes)")]
          /\ devStatus' = [devStatus EXCEPT ![s] = "ERROR"]
     ELSE /\ sess' = [sess EXCEPT ![s].timeoutHandle = "fired"]
          /\ UNCHANGED <<proc, devStatus>>
  /\ UNCHANGED <<sessions, stopTimer, lifeVars, cliVars, gemVars, logVars>>

\* POST /stop/agent/:sessionId
MgrStop(s) ==
  /\ IF StopCode(s) # 200 THEN
       UNCHANGED <<sess, proc, stopTimer>>
     ELSE
       /\ proc' = [proc EXCEPT ![s] = Kill(@, "SIGTERM")]
       /\ sess' = [sess EXCEPT ![s].status = "stopped"]
       /\ stopTimer' = [stopTimer EXCEPT ![s] = "armed"]
  /\ UNCHANGED <<sessions, devStatus, lifeVars, cliVars, gemVars, logVars>>

\* the setTimeout(..., 5000) of Stop:
\* `if (session.childProcess.exitCode === null) kill('SIGKILL')`
MgrStopGrace(s) ==
  /\ stopTimer[s] = "armed"
  /\ stopTimer' = [stopTimer EXCEPT ![s] = "fired"]
  /\ proc' = [proc EXCEPT ![s] =
        IF @.exitCode = NullCode THEN Kill(@, "SIGKILL") ELSE @]
  /\ UNCHANGED <<sessions, sess, devStatus, lifeVars, cliVars, gemVars, logVars>>

\* A variant of Delete that empties the registry.
MgrDelete_Clear(s) ==
  /\ IF DeleteCode(s) # 200 THEN
       UNCHANGED <<sessions, sess, proc>>
     ELSE
       /\ proc' = [proc EXCEPT ![s] =
             IF sess[s].status = "running" THEN Kill(@, "SIGKILL") ELSE @]
       /\ sess' = [sess EXCEPT ![s].timeoutHandle = IF @ = "armed" THEN "cleared" ELSE @]
       /\ sessions' = {}
  /\ UNCHANGED <<stopTimer, devStatus, lifeVars, cliVars, gemVars, logVars>>

\* DELETE /sessions/agent/:sessionId
MgrDelete(s) ==
  /\ IF DeleteCode(s) # 200 THEN
       UNCHANGED <<sessions, sess, proc>>
     ELSE
       /\ proc' = [proc EXCEPT ![s] =
             IF sess[s].status = "running" THEN Kill(@, "SIGKILL") ELSE @]
       /\ sess' = [sess EXCEPT ![s].timeoutHandle = IF @ = "armed" THEN "cleared" ELSE @]
       /\ sessions' = sessions \ {s}
  /\ UNCHANGED <<stopTimer, devStatus, lifeVars, cliVars, gemVars, logVars>>

\* A variant of Status that looks at the session object, not the registry.
StatusCode_Stale(s) == IF sess[s].status = "none" THEN 404 ELSE 200

\* GET /status/agent/:sessionId and GET /logs/agent/:sessionId
StatusCode(s) == IF s \notin sessions THEN 404 ELSE 200
LogsCode(s) == IF s \notin sessions THEN 404 ELSE 200

\* GET /sessions/agent: the ids of Array.from(sessions.values())
List == sessions

\* Time passes: now - session.startTime exceeds 30 * 60 * 1000.
MgrAge(s) ==
  /\ sess[s].status # "none"
  /\ s \notin aged
  /\ aged' = aged \cup {s}
  /\ UNCHANGED <<sessions, sess, proc, stopTimer, devStatus, manager, swept,
                 cliVars, gemVars, logVars>>

\* A variant of the sweep that ignores the status.
SweepRemoves_AnyStatus == {s \in sessions : s \in aged}

\* what one pass of the cleanup setInterval removes
SweepRemoves == {s \in sessions : sess[s].status # "running" /\ s \in aged}

\* The cleanup setInterval (every minute).
MgrSweep ==
  /\ sessions' = sessions \ SweepRemoves
  /\ sess' = [s \in SessionIds |->
        IF s \in SweepRemoves /\ sess[s].timeoutHandle = "armed"
        THEN [sess[s] EXCEPT !.timeoutHandle = "cleared"] ELSE sess[s]]
  /\ swept' = swept \cup SweepRemoves
  /\ UNCHANGED <<proc, stopTimer, devStatus, manager, aged,
                 cliVars, gemVars, logVars>>

\* A variant of the shutdown loop that signals every process.
ShutdownSignal_All(s) == Kill(proc[s], "SIGTERM")

\* the process of session s after gracefulShutdown's loop body
ShutdownSignal(s) ==
  IF s \in sessions /\ sess[s].status = "running"
  THEN Kill(proc[s], "SIGTERM") ELSE proc[s]

\* gracefulShutdown on SIGTERM or SIGINT: SIGTERM to every running
\* session, every timeout timer cleared, then server.close().
MgrShutdown ==
  /\ proc' = [s \in SessionIds |-> ShutdownSignal(s)]
  /\ sess' = [s \in SessionIds |->
        IF s \in sessions /\ sess[s].timeoutHandle = "armed"
        THEN [sess[s] EXCEPT !.timeoutHandle = "cleared"] ELSE sess[s]]
  /\ manager' = "closing"
  /\ UNCHANGED <<sessions, stopTimer, devStatus, aged, swept,
                 cliVars, gemVars, logVars>>

\* the callback of server.close(): process.exit(0)
MgrExit ==
  /\ manager = "closing"
  /\ manager' = "exited"
  /\ UNCHANGED <<sessions, sess, proc, stopTimer, devStatus, aged, swept,
                 cliVars, gemVars, logVars>>

\* a failed spawn's 'error' event is due on the next tick, before any
\* other event is handled
PendingTick == \E s \in SessionIds : proc[s].state = "spawnfail"

MgrInit == CliIdle /\ GemIdle /\ MgrIdle /\ LogIdle

\* steps of the child processes
ChildNext ==
  \E s \in SessionIds :
     ChildExit(s) \/ ChildDiesOfSigterm(s) \/ ChildDiesOfSigkill(s)

\* event handlers and request handlers of the running Manager
HandlerNext ==
  \/ MgrStart
  \/ \E s \in SessionIds :
       \/ ProcClose(s) \/ MgrTimeout(s)
       \/ MgrStop(s) \/ MgrStopGrace(s) \/ MgrDelete(s)

MgrNext ==
  \/ \E s \in SessionIds : MgrSpawnError(s)
  \/ ~PendingTick /\ (ChildNext \/ (manager # "exited" /\ HandlerNext))

MgrSpec == MgrInit /\ [][MgrNext]_vars

\* The Manager with its cleanup sweep.
MgrSweepNext ==
  \/ MgrNext
  \/ ~PendingTick /\ (MgrSweep \/ \E s \in SessionIds : MgrAge(s))

MgrSweepSpec == MgrInit /\ [][MgrSweepNext]_vars

\* childProcess.stderr.on('data', ...): a chunk of output of the process of
\* session s is appended to the buffer of that session.  The listener is
\* bound to the session object, registered or not.
MgrOutput(s) ==
  /\ proc[s].state = "running"
  /\ sess[s].stderr = <<>>
  /\ sess' = [sess EXCEPT ![s].stderr = Append(@, "data")]
  /\ UNCHANGED <<sessions, proc, stopTimer, devStatus, lifeVars, cliVars, gemVars, logVars>>

\* The Manager with its cleanup sweep and the output of the processes.
MgrAllNext ==
  \/ MgrSweepNext
  \/ ~PendingTick /\ manager # "exited" /\ \E s \in SessionIds : MgrOutput(s)

MgrAllSpec == MgrInit /\ [][MgrAllNext]_vars

\* The Manager with its shutdown.
MgrDownNext ==
  \/ MgrNext
  \/ ~PendingTick /\ manager # "exited" /\ (MgrShutdown \/ MgrExit)

MgrDownSpec == MgrInit /\ [][MgrDownNext]_vars

\* Timers fire, SIGKILL ends the process, and 'close' is delivered.
MgrFairSpec ==
  /\ MgrSpec
  /\ \A s \in SessionIds :
       /\ WF_vars(MgrStopGrace(s))
       /\ WF_vars(ChildDiesOfSigkill(s))
       /\ WF_vars(ProcClose(s))

\* ------------------------------------------------------------------------
\* Properties of the Manager
\* ------------------------------------------------------------------------
\* C10: Stop on a running session sets its status to stopped; the status
\* then stays stopped, also when the process closes, whatever the exit
\* code; when the 5 s timer finds the process still running it sends
\* SIGKILL, so the process ends even if it ignored SIGTERM.
C10_StopSetsStopped ==
  [][\A s \in SessionIds :
       (MgrStop(s) /\ s \in sessions /\ sess[s].status = "running")
          => (sess'[s].status = "stopped")]_vars
C10_StaysStopped ==
  [][\A s \in SessionIds :
       (sess[s].status = "stopped") => (sess'[s].status = "stopped")]_vars
C10_ForcedKill ==
  [][\A s \in SessionIds :
       (MgrStopGrace(s) /\ proc[s].state = "running")
          => ("SIGKILL" \in proc'[s].signals)]_vars
C10_ProcessEnds ==
  \A s \in SessionIds : (sess[s].status = "stopped") ~> (proc[s].state = "exited")
C10_StopIsFinal ==
  C10_StopSetsStopped /\ C10_StaysStopped /\ C10_ForcedKill /\ C10_ProcessEnds
C10_Witness ==
  \E s \in SessionIds :
    /\ sess[s].status = "stopped"
    /\ proc[s].closed
    /\ proc[s].signals = {"SIGTERM", "SIGKILL"}
    /\ stopTimer[s] = "fired"


\* C11: Stop on a registered session whose status is completed, stopped or
\* error is answered 400, sends no signal, arms no forced-kill timer and
\* leaves the session (status, buffers, exit code) as it was.
C11_StopRejected ==
  [][\A s \in SessionIds :
       (s \in sessions /\ sess[s].status \in {"completed", "stopped", "error"}) =>
          /\ StopCode(s) = 400
          /\ (MgrStop(s) =>
                (sess'[s] = sess[s] /\ proc'[s] = proc[s]
                   /\ stopTimer'[s] = stopTimer[s]))]_vars
C11_Witness ==
  \E s \in sessions :
    /\ sess[s].status = "stopped"
    /\ proc[s].closed
    /\ proc[s].signals = {"SIGTERM"}
    /\ stopTimer[s] = "fired"
    /\ StopCode(s) = 400

\* C12: a sweep removes from List every registered session that is not
\* running and older than the retention window, and no running session; a
\* swept session stays absent, and a running session leaves the registry
\* only by Delete.
C12_SweepRemovesOldTerminal ==
  /\ [][MgrSweep =>
         \A s \in sessions :
            /\ (sess[s].status # "running" /\ s \in aged) => (s \notin List')
            /\ (sess[s].status = "running") => (s \in List')]_vars
  /\ [][\A s \in sessions :
          (sess[s].status = "running" /\ s \notin List') => MgrDelete(s)]_vars
  /\ [](swept \cap List = {})
C12_Witness ==
  /\ \E s \in swept : s \notin List /\ sess[s].status = "completed"
  /\ \E t \in aged : t \in List /\ sess[t].status = "running"

\* C13: with all required fields present, a liveness answer other than 200
\* (or none) makes Start answer 503 and change nothing: no job record, no
\* process, no session.
C13_UnhealthyStartRejected ==
  [][\A s \in SessionIds, health \in HealthAnswers \ {"200"},
        recordOk \in BOOLEAN, spawnOk \in BOOLEAN :
       /\ StartCode(TRUE, health, recordOk) = 503
       /\ (MgrStartWith(s, TRUE, health, recordOk, spawnOk) =>
             UNCHANGED <<sessions, sess, proc, devStatus>>)]_vars
C13_Witness ==
  /\ UsedIds # {} /\ UsedIds # SessionIds
  /\ \A s \in SessionIds \ UsedIds :
       devStatus[s] = "NONE" /\ proc[s] = NoProc /\ s \notin sessions
  /\ StartCode(TRUE, "unreachable", TRUE) = 503

C15_DeleteRemoves ==
  /\ [][\A s \in sessions :
          MgrDelete(s) =>
            /\ s \notin sessions'
            /\ (sess[s].status = "running" /\ proc[s].state = "running")
                  => ("SIGKILL" \in proc'[s].signals)
            /\ sess'[s].timeoutHandle # "armed"]_vars
  /\ [][\A s \in SessionIds :
          (s \notin sessions /\ sess[s].status # "none") => (s \notin sessions')]_vars
  /\ [](\A s \in SessionIds \ sessions :
          /\ StatusCode(s) = 404 /\ LogsCode(s) = 404
          /\ StopCode(s) = 404 /\ DeleteCode(s) = 404
          /\ s \notin List)
C15_Witness ==
  \E s \in SessionIds \ sessions :
    /\ sess[s].status = "running"
    /\ "SIGKILL" \in proc[s].signals
    /\ sess[s].timeoutHandle = "cleared"

C18_CancelledJobTerminal ==
  \A s \in SessionIds :
    (proc[s].state = "exited" /\ proc[s].signals # {} /\ proc[s].exitCode = NullCode)
       ~> (devStatus[s] \in {"COMPLETED", "ERROR"})

\* C19: gracefulShutdown sends SIGTERM to the process of every registered
\* session whose status is running and leaves every other process alone;
\* the Manager leaves "up" only through gracefulShutdown and exits only
\* after it.
C19_ShutdownSignalsRunning ==
  /\ [][MgrShutdown =>
         \A s \in SessionIds :
            IF s \in sessions /\ sess[s].status = "running"
            THEN (proc[s].state = "running") => ("SIGTERM" \in proc'[s].signals)
            ELSE proc'[s] = proc[s]]_vars
  /\ [][(manager = "up" /\ manager' # "up") => (MgrShutdown /\ manager' = "closing")]_vars
  /\ [][(manager' = "exited") => (manager \in {"closing", "exited"})]_vars
C19_Witness ==
  /\ manager = "exited"
  /\ \E s \in sessions :
       /\ sess[s].status = "running"
       /\ "SIGTERM" \in proc[s].signals
  /\ \E t \in sessions :
       /\ sess[t].status = "error"
       /\ proc[t].state = "running"
       /\ "SIGTERM" \notin proc[t].signals

TerminalStatuses == {"completed", "stopped", "error"}

\* C35: a session whose status is completed, stopped or error never becomes
\* running again, and a session whose status is stopped or completed keeps
\* that status whatever handler runs afterwards ('close', 'error', the
\* timeout).
C35_StatusMovesForward ==
  [][\A s \in SessionIds :
       /\ (sess[s].status \in TerminalStatuses) => (sess'[s].status # "running")
       /\ (sess[s].status \in {"stopped", "completed"})
             => (sess'[s].status = sess[s].status)]_vars
C35_Witness ==
  \E s \in SessionIds :
    /\ sess[s].status = "stopped"
    /\ sess[s].timeoutHandle = "fired"
    /\ proc[s].closed
    /\ proc[s].exitCode # 0

\* C36 (as claimed): for every session Status answers for, the reported
\* exit code is null exactly while the process has not closed, it is 0
\* when the status is completed, and it is non-zero when the status is
\* error and the process has closed, also when a signal ended it.
C36_ExitCodeMatchesStatus ==
  \A s \in sessions :
    /\ (sess[s].exitCode = NullCode) <=> ~proc[s].closed
    /\ (sess[s].status = "completed") => (sess[s].exitCode = 0)
    /\ (sess[s].status = "error" /\ proc[s].closed)
          => (sess[s].exitCode \notin {0, NullCode})

\* C39: a step that changes anything of one session (status, buffer, exit
\* code, timer, process, job status, registry membership) changes nothing
\* of any other session, unless it is a pass of the cleanup sweep; a pass
\* of the sweep touches only sessions that are past the retention window
\* and not running, removes them, and changes nothing else of them than
\* the cleared timer.
Changed(t) ==
  \/ sess'[t] # sess[t]
  \/ proc'[t] # proc[t]
  \/ stopTimer'[t] # stopTimer[t]
  \/ devStatus'[t] # devStatus[t]
  \/ (t \in sessions') # (t \in sessions)
C39_SessionsIndependent ==
  [][IF swept' # swept
     THEN \A t \in SessionIds :
            Changed(t) =>
              /\ t \in sessions /\ t \in aged /\ sess[t].status # "running"
              /\ t \notin sessions'
              /\ sess'[t].status = sess[t].status
              /\ sess'[t].exitCode = sess[t].exitCode
              /\ sess'[t].stderr = sess[t].stderr
              /\ proc'[t] = proc[t]
     ELSE \A t, u \in SessionIds :
            (Changed(t) /\ Changed(u)) => (t = u)]_vars
C39_Witness ==
  \E t, u \in SessionIds :
    /\ t # u
    /\ t \in swept
    /\ sess[t].status = "stopped"
    /\ u \in sessions
    /\ u \in aged
    /\ u \notin swept
    /\ sess[u].status = "running"
    /\ sess[u].stderr = <<"data">>


\* ------------------------------------------------------------------------
\* Streaming Logs: GET /logs/agent/:sessionId?stream=true
\* ------------------------------------------------------------------------
\* firings of the 100 ms poll interval in one request
MaxTicks == 3
\* chunks of output the child writes to stdout
MaxOut == 2

LogEvent == [type |-> "log"]
CompleteEvent(session) ==
  [type |-> "complete", status |-> session.status, exitCode |-> session.exitCode]

\* stream.writeSSE(event): the event goes out in the order of the calls; a
\* write on a closed stream is dropped
WriteSSE(stream, event) ==
  IF stream.closed THEN stream ELSE [stream EXCEPT !.events = Append(@, event)]

\* a callback of the interval that is suspended in an await
Callback(k, at) == [id |-> k, at |-> at]

\* The callback from `if (session.status !== 'running')` on: it either
\* issues the write of the complete event and awaits it, or returns.
StatusCheck(stream, k) ==
  IF logSess.status # "running"
  THEN [WriteSSE(stream, CompleteEvent(logSess)) EXCEPT
          !.running = @ \cup {Callback(k, "completeWrite")}]
  ELSE stream

\* The interval fires: substring(lastPosition), the write of the log event
\* if there is new output, else the check of the status.  It fires also
\* while callbacks of earlier firings are suspended.
LogTick ==
  /\ sse.interval = "active"
  /\ sse.ticks < MaxTicks
  /\ LET k == sse.ticks + 1
         fired == [sse EXCEPT !.ticks = k] IN
     sse' = IF logSess.stdout > sse.lastPosition
            THEN [WriteSSE(fired, LogEvent) EXCEPT
                    !.running = @ \cup {Callback(k, "logWrite")}]
            ELSE StatusCheck(fired, k)
  /\ UNCHANGED <<logSess, cliVars, gemVars, mgrVars>>

\* The write of a log event has resolved:
\* `lastPosition = session.stdout.length`, then the check of the status.
LogWriteDone ==
  \E c \in sse.running :
    /\ c.at = "logWrite"
    /\ sse' = StatusCheck([sse EXCEPT !.running = @ \ {c},
                                      !.lastPosition = logSess.stdout], c.id)
    /\ UNCHANGED <<logSess, cliVars, gemVars, mgrVars>>

\* The write of the complete event has resolved:
\* clearInterval(interval); await stream.close()
LogCompleteDone ==
  \E c \in sse.running :
    /\ c.at = "completeWrite"
    /\ sse' = [sse EXCEPT !.running = @ \ {c}, !.interval = "cleared",
                          !.closed = TRUE]
    /\ UNCHANGED <<logSess, cliVars, gemVars, mgrVars>>

\* childProcess.stdout.on('data'): session.stdout grows until 'close'
LogData ==
  /\ logSess.exitCode = NullCode
  /\ logSess.stdout < MaxOut
  /\ logSess' = [logSess EXCEPT !.stdout = @ + 1]
  /\ UNCHANGED <<sse, cliVars, gemVars, mgrVars>>

\* Stop or the 5-minute timeout changes the status of the running session
\* while its process is still there.
LogSessionCancelled ==
  /\ logSess.status = "running"
  /\ logSess.exitCode = NullCode
  /\ \E st \in {"stopped", "error"} : logSess' = [logSess EXCEPT !.status = st]
  /\ UNCHANGED <<sse, cliVars, gemVars, mgrVars>>

\* the 'close' handler of the session's process
LogSessionClose ==
  /\ logSess.exitCode = NullCode
  /\ \E code \in ExitCodes :
       logSess' = [logSess EXCEPT !.exitCode = CloseExitCode(code),
                                  !.status = CloseStatus(@, code)]
  /\ UNCHANGED <<sse, cliVars, gemVars, mgrVars>>

\* The request has been accepted for a registered, running session:
\* lastPosition = 0 and the interval is set.
LogInit ==
  /\ logSess = [status |-> "running", exitCode |-> NullCode, stdout |-> 0]
  /\ sse = [interval |-> "active", lastPosition |-> 0, closed |-> FALSE,
            ticks |-> 0, running |-> {}, events |-> <<>>]
  /\ CliIdle
  /\ GemIdle
  /\ MgrIdle

LogNext ==
  \/ LogTick \/ LogWriteDone \/ LogCompleteDone
  \/ LogData \/ LogSessionCancelled \/ LogSessionClose

LogSpec == LogInit /\ [][LogNext]_vars

CompleteCount ==
  Cardinality({i \in 1..Len(sse.events) : sse.events[i].type = "complete"})

\* C16 (as claimed): at most one complete event is emitted, it carries a
\* status other than running, nothing is emitted after it, and the stream
\* is closed only after it, also when firings of the interval overlap.
C16_OneCompletionLast ==
  /\ CompleteCount <= 1
  /\ \A i \in 1..Len(sse.events) :
       (sse.events[i].type = "complete") =>
          (i = Len(sse.events) /\ sse.events[i].status # "running")
  /\ sse.closed => (CompleteCount = 1)

\* C20 (as claimed): the channel refuses to be iterated a second time, and
\* a second iteration of the GeminiQuery that wraps it fails with an error:
\* it neither ends silently nor yields messages.
C20_SecondIterationFails ==
  /\ inputStream.started => (StreamIterate(inputStream) = "throw")
  /\ second \in {"none", "threw"}

====
